---- MODULE Spec2Model ----
(***************************************************************************)
(* nyoom-json: a streaming JSON serializer.  The buffer is a sequence of   *)
(* bytes; the live scope writers (ArrayWriter, ObjectWriter,               *)
(* SingleValueSerializer) form a stack, innermost last, because every      *)
(* writer holds the only usable &mut borrow of the buffer while it lives.  *)
(***************************************************************************)
EXTENDS Integers, Sequences, FiniteSets, TLC

\* The caller makes at most MaxOps method calls (releases are always allowed).
MaxOps == 3

VARIABLES
    buf,       \* the JsonBuffer: the bytes appended so far
    stack,     \* the live scope writers, outermost first
    ser,       \* the Serializer: "live" until end(self) consumes it
    unwind,    \* "none", or the kind of panic that is unwinding the scopes
    topCalls,  \* how many of Serializer::write/array/object were called
    nops,      \* how many method calls the caller has made
    script,    \* a scripted caller: its program and the index of its next call
    build,     \* "debug" when debug_assert! is compiled in, "release" when not
    other,     \* a second Serializer over a buffer of its own, with its scopes
    focus      \* which of the two serializers the variables above describe

vars == <<buf, stack, ser, unwind, topCalls, nops, script, build, other, focus>>

----------------------------------------------------------------------------
\* Bytes the writers push.
LBRACKET == 91
RBRACKET == 93
LBRACE == 123
RBRACE == 125
COMMA == 44
COLON == 58
QUOTE == 34
BACKSLASH == 92

NullText == <<110, 117, 108, 108>>
TrueText == <<116, 114, 117, 101>>
FalseText == <<102, 97, 108, 115, 101>>

\* JsonBuffer::push and JsonBuffer::push_str append; nothing else touches buf.
push(b, c) == Append(b, c)

push_str(b, s) == b \o s

----------------------------------------------------------------------------
\* Values a caller can hand to write/add/field.
IntV(n) == [t |-> "int", n |-> n, s |-> <<>>]

BoolV(b) == [t |-> "bool", n |-> IF b THEN 1 ELSE 0, s |-> <<>>]

NullV == [t |-> "null", n |-> 0, s |-> <<>>]

StrV(s) == [t |-> "str", n |-> 0, s |-> s]

\* UnescapedStr(s), the marker that the text needs no escaping.
RawV(s) == [t |-> "raw", n |-> 0, s |-> s]

\* A finite f32/f64 with one decimal place: tenths / 10, negative when neg
\* (so that -0.0 is a value of its own).
FloatV(neg, tenths) == [t |-> "float", n |-> tenths, s |-> IF neg THEN <<45>> ELSE <<>>]

NanV == [t |-> "nan", n |-> 0, s |-> <<>>]

InfV(neg) == [t |-> "inf", n |-> 0, s |-> IF neg THEN <<45>> ELSE <<>>]

\* itoa::Buffer::format: minimal decimal text, '-' only when negative.
RECURSIVE Digits(_)
Digits(n) == IF n < 10 THEN <<48 + n>> ELSE Digits(n \div 10) \o <<48 + (n % 10)>>

\* Faulty variant: a positive integer is written with a sign.
itoa_signed(n) == IF n < 0 THEN <<45>> \o Digits(0 - n) ELSE <<43>> \o Digits(n)

itoa(n) == IF n < 0 THEN <<45>> \o Digits(0 - n) ELSE Digits(n)

\* ryu::Buffer::format: the shortest decimal text that reads back as the
\* same float; a non-finite float is written as NaN, inf or -inf.
ryu(v) ==
    CASE v.t = "nan" -> <<78, 97, 78>>
      [] v.t = "inf" -> v.s \o <<105, 110, 102>>
      [] v.t = "float" -> v.s \o Digits(v.n \div 10) \o <<46, 48 + (v.n % 10)>>

\* escape::ESCAPE: the escape letter of a byte, 0 when the byte is copied.
Hex(d) == IF d < 10 THEN 48 + d ELSE 87 + d

ESCAPE(c) ==
    CASE c = 8 -> 98
      [] c = 9 -> 116
      [] c = 10 -> 110
      [] c = 12 -> 102
      [] c = 13 -> 114
      [] c = QUOTE -> QUOTE
      [] c = BACKSLASH -> BACKSLASH
      [] c < 32 -> 117
      [] OTHER -> 0

EscapeByte(c) ==
    IF ESCAPE(c) = 0 THEN <<c>>
    ELSE IF ESCAPE(c) = 117
         THEN <<BACKSLASH, 117, 48, 48, Hex(c \div 16), Hex(c % 16)>>
         ELSE <<BACKSLASH, ESCAPE(c)>>

RECURSIVE escape_str(_)
escape_str(s) == IF s = <<>> THEN <<>> ELSE EscapeByte(Head(s)) \o escape_str(Tail(s))

\* Faulty variant: the text is written between the quotes as it is.
WriteStr_verbatim(b, s) == push(push_str(push(b, QUOTE), s), QUOTE)

\* impl WriteToJson for &str
WriteStr(b, s) == push(push_str(push(b, QUOTE), escape_str(s)), QUOTE)

\* impl WriteToJson for UnescapedStr
WriteUnescaped(b, s) == push(push_str(push(b, QUOTE), s), QUOTE)

\* impl WriteToJson for bool
WriteBool(b, n) == IF n = 1 THEN push_str(b, TrueText) ELSE push_str(b, FalseText)

\* WriteToJson::write_to_json, by the kind of the value.
write_to_json(b, v) ==
    CASE v.t = "int" -> push_str(b, itoa(v.n))
      [] v.t = "bool" -> WriteBool(b, v.n)
      [] v.t = "null" -> push_str(b, NullText)
      [] v.t = "str" -> WriteStr(b, v.s)
      [] v.t = "raw" -> WriteUnescaped(b, v.s)
      [] v.t \in {"float", "nan", "inf"} -> push_str(b, ryu(v))

\* The token of a value: what its encoder appends to an empty buffer.
Token(v) == write_to_json(<<>>, v)

\* impl Key for T: AsRef<str>
KeyWrite(b, k) == WriteStr(b, k)

\* impl Key for UnescapedStr
UnescapedKeyWrite(b, k) == write_to_json(b, RawV(k))

----------------------------------------------------------------------------
\* The values and keys the unscripted caller draws from.
Values == {IntV(10), BoolV(FALSE), StrV(<<97>>)}

Keys == {<<97>>, <<98>>}

\* A value whose encoder can panic part-way: a caller-defined WriteToJson
\* (as the enums of benches/serialize.rs) that writes a quoted tag.
PanicValues == {StrV(<<97>>)}

\* The sequences the unscripted caller hands to extend.
ExtendInputs == {<<>>, <<BoolV(FALSE)>>, <<IntV(10), StrV(<<97>>)>>}

\* A live scope writer.  first_element is ArrayWriter/ObjectWriter's flag;
\* taken says that a SingleValueSerializer's guard was moved out by
\* ManuallyDrop::take.  The other fields only record history: start is the
\* buffer length when the scope opened, slot the buffer length where the
\* enclosing scope's element or field began (after its separator), key the
\* key the scope was opened under (empty in an array and at the top level),
\* items the elements or fields this scope has completed.
Writer(kind, slot, start, key) ==
    [kind |-> kind, first_element |-> TRUE, taken |-> FALSE,
     slot |-> slot, start |-> start, key |-> key, items |-> <<>>]

Top == stack[Len(stack)]

\* The innermost live scope is the only one the borrow checker lets the
\* caller use, and a caller that is unwinding makes no calls.
Live(kind) == unwind = "none" /\ stack # <<>> /\ Top.kind = kind

SetTop(w) == [stack EXCEPT ![Len(stack)] = w]

\* The text appended to b since it had length from.
Since(b, from) == SubSeq(b, from + 1, Len(b))

\* History only: the scope records the element or field it just completed:
\* its text from the slot on, the text of its value, the key and value the
\* caller gave, and whether it was a primitive written by an add or field
\* call that returned.
Item(w, slot, start, b, key, val, prim) ==
    [w EXCEPT !.items = Append(@, [text |-> Since(b, slot), vtext |-> Since(b, start),
                                   key |-> key, val |-> val, prim |-> prim])]

\* Faulty variant: the released scope hands its flag to the enclosing scope.
Close_leak(b, val) ==
    LET n == Len(stack)
    IN  IF n = 1 THEN <<>>
        ELSE [SubSeq(stack, 1, n - 1) EXCEPT
                 ![n - 1] = [Item(@, stack[n].slot, stack[n].start, b, stack[n].key,
                                  val, FALSE)
                             EXCEPT !.first_element = stack[n].first_element]]

\* The innermost scope is gone (dropped or forgotten); the enclosing scope,
\* if any, is usable again and the slot it gave out is complete.
Close(b, val) ==
    LET n == Len(stack)
    IN  IF n = 1 THEN <<>>
        ELSE [SubSeq(stack, 1, n - 1) EXCEPT
                 ![n - 1] = Item(@, stack[n].slot, stack[n].start, b, stack[n].key,
                                 val, FALSE)]

\* Faulty variant: the array starts the buffer afresh.
ArrayWriter_start_fresh(b, slot, key) ==
    [buf |-> <<LBRACKET>>, w |-> Writer("array", slot, Len(b), key)]

\* ArrayWriter::start
ArrayWriter_start(b, slot, key) ==
    [buf |-> push(b, LBRACKET), w |-> Writer("array", slot, Len(b), key)]

\* Faulty variant: the separator is written before the first element too.
ArrayWriter_comma_always(w, b) ==
    [w |-> [w EXCEPT !.first_element = FALSE], buf |-> push(b, COMMA)]

\* Faulty variant: writing a separator sets the flag again.
ArrayWriter_comma_reset(w, b) ==
    IF w.first_element
    THEN [w |-> [w EXCEPT !.first_element = FALSE], buf |-> b]
    ELSE [w |-> [w EXCEPT !.first_element = TRUE], buf |-> push(b, COMMA)]

\* ArrayWriter::comma
ArrayWriter_comma(w, b) ==
    IF w.first_element
    THEN [w |-> [w EXCEPT !.first_element = FALSE], buf |-> b]
    ELSE [w |-> w, buf |-> push(b, COMMA)]

\* The body of ArrayWriter::add, on the writer w and the buffer b.
ArrayWriter_add_value(w, b, v) ==
    LET c == ArrayWriter_comma(w, b)
        b2 == write_to_json(c.buf, v)
    IN  [w |-> Item(c.w, Len(c.buf), Len(c.buf), b2, <<>>, v, TRUE), buf |-> b2]

\* ArrayWriter::add
ArrayWriter_add(v) ==
    /\ Live("array")
    /\ LET r == ArrayWriter_add_value(Top, buf, v)
       IN  /\ buf' = r.buf
           /\ stack' = SetTop(r.w)
    /\ UNCHANGED <<ser, unwind, topCalls>>

\* Faulty variant: the items are added last first.
RECURSIVE ArrayWriter_extend_reversed(_, _, _)
ArrayWriter_extend_reversed(w, b, vals) ==
    IF vals = <<>> THEN [w |-> w, buf |-> b]
    ELSE LET r == ArrayWriter_extend_reversed(w, b, Tail(vals))
         IN  ArrayWriter_add_value(r.w, r.buf, Head(vals))

\* The loop of ArrayWriter::extend: for val in vals { self.add(val) }
RECURSIVE ArrayWriter_extend_loop(_, _, _)
ArrayWriter_extend_loop(w, b, vals) ==
    IF vals = <<>> THEN [w |-> w, buf |-> b]
    ELSE LET r == ArrayWriter_add_value(w, b, Head(vals))
         IN  ArrayWriter_extend_loop(r.w, r.buf, Tail(vals))

\* ArrayWriter::extend
ArrayWriter_extend(vals) ==
    /\ Live("array")
    /\ LET r == ArrayWriter_extend_loop(Top, buf, vals)
       IN  /\ buf' = r.buf
           /\ stack' = SetTop(r.w)
    /\ UNCHANGED <<ser, unwind, topCalls>>

\* ArrayWriter::add where the value's encoder panics after writing k bytes.
ArrayWriter_add_panic(v, k) ==
    /\ Live("array")
    /\ LET c == ArrayWriter_comma(Top, buf)
           b == push_str(c.buf, SubSeq(Token(v), 1, k))
       IN  /\ buf' = b
           /\ stack' = SetTop(Item(c.w, Len(c.buf), Len(c.buf), b, <<>>, v, FALSE))
    /\ unwind' = "encoder"
    /\ UNCHANGED <<ser, topCalls>>

\* SingleValueSerializer::new
SingleValueSerializer_new(slot, b, key) == Writer("single", slot, Len(b), key)

\* ArrayWriter::add_complex, up to the call of the encoder closure.
ArrayWriter_add_complex ==
    /\ Live("array")
    /\ LET c == ArrayWriter_comma(Top, buf)
       IN  /\ buf' = c.buf
           /\ stack' = Append(SetTop(c.w), SingleValueSerializer_new(Len(c.buf), c.buf, <<>>))
    /\ UNCHANGED <<ser, unwind, topCalls>>

\* ObjectWriter::start
ObjectWriter_start(b, slot, key) ==
    [buf |-> push(b, LBRACE), w |-> Writer("object", slot, Len(b), key)]

\* ArrayWriter::add_object
ArrayWriter_add_object ==
    /\ Live("array")
    /\ LET c == ArrayWriter_comma(Top, buf)
           o == ObjectWriter_start(c.buf, Len(c.buf), <<>>)
       IN  /\ buf' = o.buf
           /\ stack' = Append(SetTop(c.w), o.w)
    /\ UNCHANGED <<ser, unwind, topCalls>>

\* ArrayWriter::add_array
ArrayWriter_add_array ==
    /\ Live("array")
    /\ LET c == ArrayWriter_comma(Top, buf)
           a == ArrayWriter_start(c.buf, Len(c.buf), <<>>)
       IN  /\ buf' = a.buf
           /\ stack' = Append(SetTop(c.w), a.w)
    /\ UNCHANGED <<ser, unwind, topCalls>>

\* Faulty variant: the closing bracket is skipped while a panic unwinds.
ArrayWriter_drop_skip ==
    /\ stack # <<>> /\ Top.kind = "array"
    /\ buf' = IF unwind = "none" THEN push(buf, RBRACKET) ELSE buf
    /\ stack' = Close(buf', NullV)
    /\ UNCHANGED <<ser, unwind, topCalls>>

\* Faulty variant: an array is closed with the delimiter of an object.
ArrayWriter_drop_brace ==
    /\ stack # <<>> /\ Top.kind = "array"
    /\ buf' = push(buf, RBRACE)
    /\ stack' = Close(buf', NullV)
    /\ UNCHANGED <<ser, unwind, topCalls>>

\* impl Drop for ArrayWriter: runs whenever the writer goes out of use,
\* also while a panic unwinds.
ArrayWriter_drop ==
    /\ stack # <<>> /\ Top.kind = "array"
    /\ buf' = push(buf, RBRACKET)
    /\ stack' = Close(buf', NullV)
    /\ UNCHANGED <<ser, unwind, topCalls>>

\* ArrayWriter::end: takes self by value and does nothing, so self is
\* dropped on return.
ArrayWriter_end == unwind = "none" /\ ArrayWriter_drop

----------------------------------------------------------------------------
\* Faulty variant: the flag is never cleared, so no separator is ever written.
ObjectWriter_comma_never(w, b) == [w |-> w, buf |-> b]

\* ObjectWriter::comma
ObjectWriter_comma(w, b) ==
    IF w.first_element
    THEN [w |-> [w EXCEPT !.first_element = FALSE], buf |-> b]
    ELSE [w |-> w, buf |-> push(b, COMMA)]

\* Faulty variant: key does not call comma.
ObjectWriter_key_nocomma(w, b, k) ==
    [w |-> w, buf |-> push(KeyWrite(b, k), COLON), slot |-> Len(b)]

\* ObjectWriter::key; slot records where the field began, after the separator.
ObjectWriter_key(w, b, k) ==
    LET c == ObjectWriter_comma(w, b)
    IN  [w |-> c.w, buf |-> push(KeyWrite(c.buf, k), COLON), slot |-> Len(c.buf)]

\* ObjectWriter::key with an UnescapedStr key.
ObjectWriter_key_unescaped(w, b, k) ==
    LET c == ObjectWriter_comma(w, b)
    IN  [w |-> c.w, buf |-> push(UnescapedKeyWrite(c.buf, k), COLON), slot |-> Len(c.buf)]

\* ObjectWriter::field with an UnescapedStr key.
ObjectWriter_field_unescaped(k, v) ==
    /\ Live("object")
    /\ LET c == ObjectWriter_key_unescaped(Top, buf, k)
           b == write_to_json(c.buf, v)
       IN  /\ buf' = b
           /\ stack' = SetTop(Item(c.w, c.slot, Len(c.buf), b, k, v, TRUE))
    /\ UNCHANGED <<ser, unwind, topCalls>>

\* Faulty variant: a field whose key the object already has is dropped.
ObjectWriter_field_unique(k, v) ==
    /\ Live("object")
    /\ IF \E i \in 1..Len(Top.items) : Top.items[i].key = k
       THEN UNCHANGED <<buf, stack>>
       ELSE LET c == ObjectWriter_key(Top, buf, k)
                b == write_to_json(c.buf, v)
            IN  /\ buf' = b
                /\ stack' = SetTop(Item(c.w, c.slot, Len(c.buf), b, k, v, TRUE))
    /\ UNCHANGED <<ser, unwind, topCalls>>

\* ObjectWriter::field
ObjectWriter_field(k, v) ==
    /\ Live("object")
    /\ LET c == ObjectWriter_key(Top, buf, k)
           b == write_to_json(c.buf, v)
       IN  /\ buf' = b
           /\ stack' = SetTop(Item(c.w, c.slot, Len(c.buf), b, k, v, TRUE))
    /\ UNCHANGED <<ser, unwind, topCalls>>

\* ObjectWriter::field where the value's encoder panics after writing n bytes.
ObjectWriter_field_panic(k, v, n) ==
    /\ Live("object")
    /\ LET c == ObjectWriter_key(Top, buf, k)
           b == push_str(c.buf, SubSeq(Token(v), 1, n))
       IN  /\ buf' = b
           /\ stack' = SetTop(Item(c.w, c.slot, Len(c.buf), b, k, v, FALSE))
    /\ unwind' = "encoder"
    /\ UNCHANGED <<ser, topCalls>>

\* ObjectWriter::complex_field, up to the call of the encoder closure.
ObjectWriter_complex_field(k) ==
    /\ Live("object")
    /\ LET c == ObjectWriter_key(Top, buf, k)
       IN  /\ buf' = c.buf
           /\ stack' = Append(SetTop(c.w), SingleValueSerializer_new(c.slot, c.buf, k))
    /\ UNCHANGED <<ser, unwind, topCalls>>

\* ObjectWriter::object_field
ObjectWriter_object_field(k) ==
    /\ Live("object")
    /\ LET c == ObjectWriter_key(Top, buf, k)
           o == ObjectWriter_start(c.buf, c.slot, k)
       IN  /\ buf' = o.buf
           /\ stack' = Append(SetTop(c.w), o.w)
    /\ UNCHANGED <<ser, unwind, topCalls>>

\* ObjectWriter::array_field
ObjectWriter_array_field(k) ==
    /\ Live("object")
    /\ LET c == ObjectWriter_key(Top, buf, k)
           a == ArrayWriter_start(c.buf, c.slot, k)
       IN  /\ buf' = a.buf
           /\ stack' = Append(SetTop(c.w), a.w)
    /\ UNCHANGED <<ser, unwind, topCalls>>

\* Faulty variant: the object's Drop pushes the array's closing bracket.
ObjectWriter_drop_bracket ==
    /\ stack # <<>> /\ Top.kind = "object"
    /\ buf' = push(buf, RBRACKET)
    /\ stack' = Close(buf', NullV)
    /\ UNCHANGED <<ser, unwind, topCalls>>

\* impl Drop for ObjectWriter
ObjectWriter_drop ==
    /\ stack # <<>> /\ Top.kind = "object"
    /\ buf' = push(buf, RBRACE)
    /\ stack' = Close(buf', NullV)
    /\ UNCHANGED <<ser, unwind, topCalls>>

\* ObjectWriter::end
ObjectWriter_end == unwind = "none" /\ ObjectWriter_drop

----------------------------------------------------------------------------
\* Faulty variant: self is not forgotten, so Drop runs when write returns.
SingleValueSerializer_write_unforgotten(v) ==
    /\ Live("single")
    /\ buf' = push_str(write_to_json(buf, v), NullText)
    /\ stack' = Close(buf', v)
    /\ UNCHANGED <<ser, unwind, topCalls>>

\* SingleValueSerializer::write: the guard is taken, the value written and
\* self forgotten, so Drop does not run.
SingleValueSerializer_write(v) ==
    /\ Live("single")
    /\ buf' = write_to_json(buf, v)
    /\ stack' = Close(buf', v)
    /\ UNCHANGED <<ser, unwind, topCalls>>

\* SingleValueSerializer::write where the value's encoder panics after
\* writing k bytes: the guard was taken, but core::mem::forget(self) is not
\* reached, so self is still to be dropped by the unwinding.
SingleValueSerializer_write_panic(v, k) ==
    /\ Live("single")
    /\ buf' = push_str(buf, SubSeq(Token(v), 1, k))
    /\ stack' = SetTop([Top EXCEPT !.taken = TRUE])
    /\ unwind' = "encoder"
    /\ UNCHANGED <<ser, topCalls>>

\* SingleValueSerializer::array
SingleValueSerializer_array ==
    /\ Live("single")
    /\ LET a == ArrayWriter_start(buf, Top.slot, Top.key)
       IN  /\ buf' = a.buf
           /\ stack' = SetTop(a.w)
    /\ UNCHANGED <<ser, unwind, topCalls>>

\* SingleValueSerializer::object
SingleValueSerializer_object ==
    /\ Live("single")
    /\ LET o == ObjectWriter_start(buf, Top.slot, Top.key)
       IN  /\ buf' = o.buf
           /\ stack' = SetTop(o.w)
    /\ UNCHANGED <<ser, unwind, topCalls>>

\* Faulty variant: Drop writes no default.
SingleValueSerializer_drop_nothing ==
    /\ stack # <<>> /\ Top.kind = "single"
    /\ buf' = buf
    /\ stack' = Close(buf', NullV)
    /\ UNCHANGED <<ser, unwind, topCalls>>

\* impl Drop for SingleValueSerializer: pushes "null" whenever it runs; it
\* does not look at whether the guard was taken.
SingleValueSerializer_drop ==
    /\ stack # <<>> /\ Top.kind = "single"
    /\ buf' = push_str(buf, NullText)
    /\ stack' = Close(buf', NullV)
    /\ UNCHANGED <<ser, unwind, topCalls>>

----------------------------------------------------------------------------
\* Faulty variant: the Serializer can be called while a writer borrowed
\* from it is live.
SerUsable_shared == unwind = "none" /\ ser = "live"

\* The Serializer is usable when no writer borrowed from it is live.
SerUsable == unwind = "none" /\ ser = "live" /\ stack = <<>>

\* Faulty variant: the top-level write ends its value with a separator.
Serializer_write_separated(v) ==
    /\ SerUsable
    /\ buf' = push(write_to_json(buf, v), COMMA)
    /\ topCalls' = topCalls + 1
    /\ UNCHANGED <<stack, ser, unwind>>

\* Serializer::write
Serializer_write(v) ==
    /\ SerUsable
    /\ buf' = write_to_json(buf, v)
    /\ topCalls' = topCalls + 1
    /\ UNCHANGED <<stack, ser, unwind>>

\* Faulty variant: the Serializer separates a second top-level value from the first.
Serializer_array_separated ==
    /\ SerUsable
    /\ LET a == ArrayWriter_start(IF buf = <<>> THEN buf ELSE push(buf, COMMA),
                                  Len(buf), <<>>)
       IN  /\ buf' = a.buf
           /\ stack' = <<a.w>>
    /\ topCalls' = topCalls + 1
    /\ UNCHANGED <<ser, unwind>>

\* Serializer::array
Serializer_array ==
    /\ SerUsable
    /\ LET a == ArrayWriter_start(buf, Len(buf), <<>>)
       IN  /\ buf' = a.buf
           /\ stack' = <<a.w>>
    /\ topCalls' = topCalls + 1
    /\ UNCHANGED <<ser, unwind>>

\* Serializer::object
Serializer_object ==
    /\ SerUsable
    /\ LET o == ObjectWriter_start(buf, Len(buf), <<>>)
       IN  /\ buf' = o.buf
           /\ stack' = <<o.w>>
    /\ topCalls' = topCalls + 1
    /\ UNCHANGED <<ser, unwind>>

\* Serializer::end
Serializer_end ==
    /\ SerUsable
    /\ ser' = "ended"
    /\ UNCHANGED <<buf, stack, unwind, topCalls>>

\* The condition debug_assert! checks in UnescapedStr::create, negated:
\* some byte of s has an escape.
NeedsEscape(s) == \E i \in 1..Len(s) : ESCAPE(s[i]) # 0

\* Faulty variant: the assertion is compiled into every build.
UnescapedStr_create_checked(s) ==
    /\ unwind = "none"
    /\ unwind' = IF NeedsEscape(s) THEN "caller" ELSE "none"
    /\ UNCHANGED <<buf, stack, ser, topCalls>>

\* UnescapedStr::create(s): where the assertion is compiled in and fails,
\* the caller panics; otherwise the marker is returned.
UnescapedStr_create(s) ==
    /\ unwind = "none"
    /\ unwind' = IF build = "debug" /\ NeedsEscape(s) THEN "caller" ELSE "none"
    /\ UNCHANGED <<buf, stack, ser, topCalls>>

\* The caller's own code panics (or returns early) between two calls while
\* scopes are live: every live writer is dropped, innermost first.
CallerPanic ==
    /\ unwind = "none" /\ stack # <<>>
    /\ unwind' = "caller"
    /\ UNCHANGED <<buf, stack, ser, topCalls>>

----------------------------------------------------------------------------
\* The unscripted caller: any call the borrow checker accepts, at most
\* MaxOps of them; drops are not counted, so every scope can always close.
\* Faulty variant: the separator flag is a static that all writers share,
\* so a call on one serializer clears the flag in the other's scopes too.
Isolated_static_flag ==
    /\ focus' = focus
    /\ other' = [other EXCEPT !.stack =
                    [i \in 1..Len(@) |-> [@[i] EXCEPT !.first_element = FALSE]]]

\* A call reaches only the fields of its own writer: the buffer handle and
\* the flag; the library has no static and no global.
Isolated == UNCHANGED <<other, focus>>

Counted == nops < MaxOps /\ nops' = nops + 1 /\ UNCHANGED <<script, build>> /\ Isolated

Uncounted == UNCHANGED <<nops, script, build>> /\ Isolated

\* A second serializer that is never used.
Unused ==
    [buf |-> <<>>, stack |-> <<>>, ser |-> "live", unwind |-> "none", topCalls |-> 0,
     script |-> [prog |-> <<>>, pc |-> 1]]

Write == \E v \in Values : Counted /\ Serializer_write(v)

Array == Counted /\ Serializer_array

Object == Counted /\ Serializer_object

End == Uncounted /\ Serializer_end

Add == \E v \in Values : Counted /\ ArrayWriter_add(v)

Extend == \E vals \in ExtendInputs : Counted /\ ArrayWriter_extend(vals)

AddPanic ==
    \E v \in PanicValues : \E k \in 0..Len(Token(v)) :
        Counted /\ ArrayWriter_add_panic(v, k)

AddComplex == Counted /\ ArrayWriter_add_complex

AddObject == Counted /\ ArrayWriter_add_object

AddArray == Counted /\ ArrayWriter_add_array

ArrayEnd == Uncounted /\ ArrayWriter_end

ArrayDrop == Uncounted /\ ArrayWriter_drop

Field == \E k \in Keys : \E v \in Values : Counted /\ ObjectWriter_field(k, v)

FieldPanic ==
    \E k \in Keys : \E v \in PanicValues : \E n \in 0..Len(Token(v)) :
        Counted /\ ObjectWriter_field_panic(k, v, n)

ComplexField == \E k \in Keys : Counted /\ ObjectWriter_complex_field(k)

ObjectField == \E k \in Keys : Counted /\ ObjectWriter_object_field(k)

ArrayField == \E k \in Keys : Counted /\ ObjectWriter_array_field(k)

ObjectEnd == Uncounted /\ ObjectWriter_end

ObjectDrop == Uncounted /\ ObjectWriter_drop

SvsWrite == \E v \in Values : Counted /\ SingleValueSerializer_write(v)

SvsWritePanic ==
    \E v \in PanicValues : \E k \in 0..Len(Token(v)) :
        Counted /\ SingleValueSerializer_write_panic(v, k)

SvsArray == Counted /\ SingleValueSerializer_array

SvsObject == Counted /\ SingleValueSerializer_object

SvsDrop == Uncounted /\ SingleValueSerializer_drop

Panic == Uncounted /\ CallerPanic

Init ==
    /\ buf = <<>>
    /\ stack = <<>>
    /\ ser = "live"
    /\ unwind = "none"
    /\ topCalls = 0
    /\ nops = 0
    /\ script = [prog |-> <<>>, pc |-> 1]
    /\ build = "release"
    /\ other = Unused /\ focus = 1

Next ==
    \/ Write \/ Array \/ Object \/ End
    \/ Add \/ Extend \/ AddPanic \/ AddComplex \/ AddObject \/ AddArray \/ ArrayEnd \/ ArrayDrop
    \/ Field \/ FieldPanic \/ ComplexField \/ ObjectField \/ ArrayField
    \/ ObjectEnd \/ ObjectDrop
    \/ SvsWrite \/ SvsWritePanic \/ SvsArray \/ SvsObject \/ SvsDrop
    \/ Panic

Spec == Init /\ [][Next]_vars

\* The same caller over a buffer that is handed to Serializer::new with
\* content in it: nothing, "x", or "[1," written by someone else.
PriorContents == {<<>>, <<120>>, <<LBRACKET, 49, COMMA>>}

InitAppend ==
    /\ buf \in PriorContents
    /\ stack = <<>>
    /\ ser = "live"
    /\ unwind = "none"
    /\ topCalls = 0
    /\ nops = 0
    /\ script = [prog |-> <<>>, pc |-> 1]
    /\ build = "release"
    /\ other = Unused /\ focus = 1

SpecAppend == InitAppend /\ [][Next]_vars

----------------------------------------------------------------------------
\* A scripted caller: a straight-line program of calls, as in the doc
\* examples of lib.rs and write_root of benches/serialize.rs.
Op(op, k, v) == [op |-> op, k |-> k, v |-> v]

\* Array elements and field values of the scripted programs.
ScriptInts == 1..3

\* The longest "scores" array a scripted program writes.
MaxScores == 3

\* "cat" and "a"
ScriptNames == {<<99, 97, 116>>, <<97>>}

NameKey == <<110, 97, 109, 101>>

FedKey == <<102, 101, 100>>

ScoresKey == <<115, 99, 111, 114, 101, 115>>

\* arr = ser.array(); obj = arr.add_object(); obj.field(k1, v1);
\* obj.field(k2, v2); obj.end(); arr.add(v3); arr.end()
NestedProgram(k1, v1, k2, v2, v3) ==
    << Op("array", <<>>, NullV), Op("add_object", <<>>, NullV),
       Op("field", k1, IntV(v1)), Op("field", k2, IntV(v2)), Op("end", <<>>, NullV),
       Op("add", <<>>, IntV(v3)), Op("end", <<>>, NullV) >>

\* obj = ser.object(); obj.field("name", name); obj.field("fed", fed);
\* arr = obj.array_field("scores"); arr.add(s) for each score; arr.end();
\* obj.end()
\* (and, when again, obj.field("fed", fed) once more before obj.end())
RecordProgram(name, fed, scores, again) ==
    << Op("object", <<>>, NullV), Op("field", NameKey, StrV(name)),
       Op("field", FedKey, BoolV(fed)), Op("array_field", ScoresKey, NullV) >>
    \o [i \in 1..Len(scores) |-> Op("add", <<>>, IntV(scores[i]))]
    \o << Op("end", <<>>, NullV) >>
    \o (IF again THEN << Op("field", FedKey, BoolV(fed)) >> ELSE <<>>)
    \o << Op("end", <<>>, NullV) >>

\* The values a scripted extend is called with: an integer per entry of ns.
ScriptVals(ns) == [i \in 1..Len(ns) |-> IntV(ns[i])]

\* arr = ser.array(); arr.add(v) for v in pre; arr.extend(vals);
\* arr.add(v) for v in post; arr.end()
ExtendProgram(pre, vals, post) ==
    << Op("array", <<>>, NullV) >>
    \o [i \in 1..Len(pre) |-> Op("add", <<>>, IntV(pre[i]))]
    \o << Op("extend", vals, NullV) >>
    \o [i \in 1..Len(post) |-> Op("add", <<>>, IntV(post[i]))]
    \o << Op("end", <<>>, NullV) >>

\* arr = ser.array(); a = arr.add_array(); a.extend(vals); a.end();
\* b = arr.add_array(); b.end(); arr.end()
SiblingProgram(vals) ==
    << Op("array", <<>>, NullV), Op("add_array", <<>>, NullV), Op("extend", vals, NullV),
       Op("end", <<>>, NullV), Op("add_array", <<>>, NullV), Op("end", <<>>, NullV),
       Op("end", <<>>, NullV) >>

Programs ==
    { ExtendProgram(pre, vals, post) :
        pre \in UNION { [1..n -> ScriptInts] : n \in 0..1 },
        vals \in UNION { [1..n -> ScriptInts] : n \in 0..MaxScores },
        post \in UNION { [1..n -> ScriptInts] : n \in 0..1 } }
    \cup
    { SiblingProgram(vals) : vals \in UNION { [1..n -> ScriptInts] : n \in 0..MaxScores } }
    \cup
    { NestedProgram(k1, v1, k2, v2, v3) :
        k1 \in Keys, v1 \in ScriptInts, k2 \in Keys, v2 \in ScriptInts, v3 \in ScriptInts }
    \cup
    { RecordProgram(name, fed, scores, again) :
        name \in ScriptNames, fed \in BOOLEAN,
        scores \in UNION { [1..n -> ScriptInts] : n \in 0..MaxScores },
        again \in BOOLEAN }

\* The scripted caller makes the next call of its program.
Finished == script.pc > Len(script.prog)

Call == script.prog[script.pc]

Scripted(op) ==
    /\ ~Finished /\ Call.op = op
    /\ script' = [script EXCEPT !.pc = @ + 1]
    /\ UNCHANGED <<nops, build>>
    /\ Isolated

RunArray == Scripted("array") /\ Serializer_array

RunObject == Scripted("object") /\ Serializer_object

RunAdd == Scripted("add") /\ ArrayWriter_add(Call.v)

RunExtend == Scripted("extend") /\ ArrayWriter_extend(ScriptVals(Call.k))

RunAddObject == Scripted("add_object") /\ ArrayWriter_add_object

RunAddArray == Scripted("add_array") /\ ArrayWriter_add_array

RunField == Scripted("field") /\ ObjectWriter_field(Call.k, Call.v)

RunArrayField == Scripted("array_field") /\ ObjectWriter_array_field(Call.k)

RunArrayEnd == Scripted("end") /\ ArrayWriter_end

RunObjectEnd == Scripted("end") /\ ObjectWriter_end

InitScript ==
    /\ buf = <<>>
    /\ stack = <<>>
    /\ ser = "live"
    /\ unwind = "none"
    /\ topCalls = 0
    /\ nops = 0
    /\ script \in [prog : Programs, pc : {1}]
    /\ build = "release"
    /\ other = Unused /\ focus = 1

NextScript ==
    \/ RunArray \/ RunObject \/ RunAdd \/ RunExtend \/ RunAddObject \/ RunAddArray
    \/ RunField \/ RunArrayField
    \/ RunArrayEnd \/ RunObjectEnd

SpecScript == InitScript /\ [][NextScript]_vars

----------------------------------------------------------------------------
\* Two serializers, each over a buffer of its own, each running a scripted
\* program; the caller (or two threads) interleaves their calls freely.
\* The variables buf .. script describe the serializer the next call is
\* made on, and other holds the serializer that is waiting.
PairPrograms ==
    { <<>>,
      ExtendProgram(<<1>>, <<2, 3>>, <<>>),
      ExtendProgram(<<>>, <<>>, <<1>>),
      SiblingProgram(<<1>>),
      NestedProgram(<<97>>, 1, <<98>>, 2, 3),
      RecordProgram(<<97>>, TRUE, <<1, 2>>, FALSE) }

\* The next call is made on the other serializer; no call is made here.
Switch ==
    /\ buf' = other.buf
    /\ stack' = other.stack
    /\ ser' = other.ser
    /\ unwind' = other.unwind
    /\ topCalls' = other.topCalls
    /\ script' = other.script
    /\ other' = [buf |-> buf, stack |-> stack, ser |-> ser, unwind |-> unwind,
                 topCalls |-> topCalls, script |-> script]
    /\ focus' = 3 - focus
    /\ UNCHANGED <<nops, build>>

InitPair ==
    /\ buf = <<>>
    /\ stack = <<>>
    /\ ser = "live"
    /\ unwind = "none"
    /\ topCalls = 0
    /\ nops = 0
    /\ script \in [prog : PairPrograms, pc : {1}]
    /\ build = "release"
    /\ other \in { [Unused EXCEPT !.script = [prog |-> q, pc |-> 1]] : q \in PairPrograms }
    /\ focus = 1

NextPair == NextScript \/ Switch

SpecPair == InitPair /\ [][NextPair]_vars

----------------------------------------------------------------------------
\* A caller that writes one primitive: the inputs of the primitive encoders.
\* The longest text, in characters.
MaxChars == 3

\* NUL, \n, 0x1F, '"', '/', '\', 'a', DEL and the two-byte U+00E9.
Chars == {<<0>>, <<10>>, <<31>>, <<QUOTE>>, <<47>>, <<BACKSLASH>>, <<97>>, <<127>>,
          <<195, 169>>}

RECURSIVE Concat(_)
Concat(cs) == IF cs = <<>> THEN <<>> ELSE Head(cs) \o Concat(Tail(cs))

Texts == { Concat(cs) : cs \in UNION { [1..n -> Chars] : n \in 0..MaxChars } }

IntInputs == {0, 7, 10, 255, 0 - 1, 0 - 128, 2147483647, 0 - 2147483647}

\* 0.0, 0.5, 1.5, 10.0 and their negatives.
FloatInputs == { FloatV(neg, tenths) : neg \in BOOLEAN, tenths \in {0, 5, 15, 100} }

NonFinite == {NanV, InfV(FALSE), InfV(TRUE)}

PrimitiveInputs ==
    { IntV(n) : n \in IntInputs } \cup FloatInputs \cup NonFinite
    \cup {BoolV(TRUE), BoolV(FALSE), NullV} \cup { StrV(s) : s \in Texts }

\* ser.write(v)
ValueProgram(v) == << Op("write", <<>>, v) >>

\* m = UnescapedStr::create(s); ser.write(m)
MarkerProgram(s) == << Op("create", s, NullV), Op("write", <<>>, RawV(s)) >>

\* m = UnescapedStr::create(s); obj = ser.object(); obj.field(m, v); obj.end()
MarkerKeyProgram(s, v) ==
    << Op("create", s, NullV), Op("object", <<>>, NullV),
       Op("field_unescaped", s, v), Op("end", <<>>, NullV) >>

ValuePrograms ==
    { ValueProgram(v) : v \in PrimitiveInputs }
    \cup { MarkerProgram(s) : s \in Texts }
    \cup { MarkerKeyProgram(s, IntV(7)) : s \in Texts }

RunWrite == Scripted("write") /\ Serializer_write(Call.v)

RunCreate == Scripted("create") /\ UnescapedStr_create(Call.k)

RunFieldUnescaped ==
    Scripted("field_unescaped") /\ ObjectWriter_field_unescaped(Call.k, Call.v)

InitValue ==
    /\ buf = <<>>
    /\ stack = <<>>
    /\ ser = "live"
    /\ unwind = "none"
    /\ topCalls = 0
    /\ nops = 0
    /\ script \in [prog : ValuePrograms, pc : {1}]
    /\ build \in {"debug", "release"}
    /\ other = Unused /\ focus = 1

NextValue == RunWrite \/ RunCreate \/ RunObject \/ RunFieldUnescaped \/ RunObjectEnd

SpecValue == InitValue /\ [][NextValue]_vars

----------------------------------------------------------------------------
\* The JSON grammar (RFC 8259, without whitespace, which no encoder
\* writes), as a recognizer: each
\* Parse operator takes the position of the next byte to read and gives the
\* position after what it recognized, 0 when it recognizes nothing.
At(s, i) == IF i >= 1 /\ i <= Len(s) THEN s[i] ELSE 0 - 1

IsDigit(c) == c >= 48 /\ c <= 57

IsHexDigit(c) == IsDigit(c) \/ (c >= 97 /\ c <= 102) \/ (c >= 65 /\ c <= 70)

RECURSIVE ParseDigits(_, _)
ParseDigits(s, i) == IF IsDigit(At(s, i)) THEN ParseDigits(s, i + 1) ELSE i

\* int [ '.' digits ] [ ('e' | 'E') [ '+' | '-' ] digits ]
ParseNumber(s, i) ==
    LET j == IF At(s, i) = 45 THEN i + 1 ELSE i
        int == IF At(s, j) = 48 THEN j + 1
               ELSE IF IsDigit(At(s, j)) THEN ParseDigits(s, j)
               ELSE 0
        frac == IF int = 0 \/ At(s, int) # 46 THEN int
                ELSE IF IsDigit(At(s, int + 1)) THEN ParseDigits(s, int + 1)
                ELSE 0
        sign == IF At(s, frac + 1) \in {43, 45} THEN frac + 2 ELSE frac + 1
    IN  IF frac = 0 \/ At(s, frac) \notin {101, 69} THEN frac
        ELSE IF IsDigit(At(s, sign)) THEN ParseDigits(s, sign)
        ELSE 0

RECURSIVE ParseChars(_, _)
ParseChars(s, i) ==
    LET c == At(s, i)
    IN  IF c = QUOTE THEN i + 1
        ELSE IF c = BACKSLASH
             THEN IF At(s, i + 1) \in {QUOTE, BACKSLASH, 47, 98, 102, 110, 114, 116}
                  THEN ParseChars(s, i + 2)
                  ELSE IF /\ At(s, i + 1) = 117
                          /\ \A d \in 2..5 : IsHexDigit(At(s, i + d))
                       THEN ParseChars(s, i + 6)
                       ELSE 0
        ELSE IF c < 32 THEN 0
        ELSE ParseChars(s, i + 1)

ParseString(s, i) == IF At(s, i) = QUOTE THEN ParseChars(s, i + 1) ELSE 0

ParseLiteral(s, i, lit) ==
    IF i + Len(lit) - 1 <= Len(s) /\ SubSeq(s, i, i + Len(lit) - 1) = lit
    THEN i + Len(lit) ELSE 0

RECURSIVE ParseValue(_, _)
RECURSIVE ParseElements(_, _)
RECURSIVE ParseMembers(_, _)
ParseValue(s, i) ==
    LET c == At(s, i)
    IN  CASE c = LBRACKET ->
               IF At(s, i + 1) = RBRACKET THEN i + 2 ELSE ParseElements(s, i + 1)
          [] c = LBRACE ->
               IF At(s, i + 1) = RBRACE THEN i + 2 ELSE ParseMembers(s, i + 1)
          [] c = QUOTE -> ParseString(s, i)
          [] c = 116 -> ParseLiteral(s, i, TrueText)
          [] c = 102 -> ParseLiteral(s, i, FalseText)
          [] c = 110 -> ParseLiteral(s, i, NullText)
          [] OTHER -> ParseNumber(s, i)

ParseElements(s, i) ==
    LET j == ParseValue(s, i)
    IN  IF j = 0 THEN 0
        ELSE IF At(s, j) = COMMA THEN ParseElements(s, j + 1)
        ELSE IF At(s, j) = RBRACKET THEN j + 1
        ELSE 0

ParseMembers(s, i) ==
    LET j == ParseString(s, i)
        m == IF j # 0 /\ At(s, j) = COLON THEN ParseValue(s, j + 1) ELSE 0
    IN  IF m = 0 THEN 0
        ELSE IF At(s, m) = COMMA THEN ParseMembers(s, m + 1)
        ELSE IF At(s, m) = RBRACE THEN m + 1
        ELSE 0

\* s is exactly one JSON value.
ValidJson(s) == ParseValue(s, 1) = Len(s) + 1

\* What a JSON parser reads from a string literal: the text it denotes.
HexVal(c) == IF IsDigit(c) THEN c - 48 ELSE IF c >= 97 THEN c - 87 ELSE c - 55

Utf8(cp) ==
    IF cp < 128 THEN <<cp>>
    ELSE IF cp < 2048 THEN <<192 + (cp \div 64), 128 + (cp % 64)>>
    ELSE <<224 + (cp \div 4096), 128 + ((cp \div 64) % 64), 128 + (cp % 64)>>

Unescaped(e) ==
    CASE e = 98 -> 8
      [] e = 102 -> 12
      [] e = 110 -> 10
      [] e = 114 -> 13
      [] e = 116 -> 9
      [] OTHER -> e

RECURSIVE UnescapeChars(_, _)
UnescapeChars(s, i) ==
    LET c == At(s, i)
    IN  IF c = QUOTE \/ i > Len(s) THEN <<>>
        ELSE IF c # BACKSLASH THEN <<c>> \o UnescapeChars(s, i + 1)
        ELSE IF At(s, i + 1) # 117
             THEN <<Unescaped(At(s, i + 1))>> \o UnescapeChars(s, i + 2)
             ELSE Utf8(4096 * HexVal(At(s, i + 2)) + 256 * HexVal(At(s, i + 3))
                       + 16 * HexVal(At(s, i + 4)) + HexVal(At(s, i + 5)))
                  \o UnescapeChars(s, i + 6)

\* lit is one JSON string literal, and it denotes text.
ParsesTo(lit, text) == ParseString(lit, 1) = Len(lit) + 1 /\ UnescapeChars(lit, 2) = text

----------------------------------------------------------------------------
\* What the claims are stated with.
RECURSIVE JoinComma(_)
JoinComma(ts) ==
    IF ts = <<>> THEN <<>>
    ELSE IF Len(ts) = 1 THEN ts[1]
    ELSE ts[1] \o <<COMMA>> \o JoinComma(Tail(ts))

Count(c, s) == Cardinality({i \in 1..Len(s) : s[i] = c})

\* This step releases the innermost scope, which is of the given kind.
ReleasesTop(kind) == stack # <<>> /\ Top.kind = kind /\ Len(stack') = Len(stack) - 1

\* Every element or field of the scope is a primitive from add or field.
OnlyPrimitives(w) == \A i \in 1..Len(w.items) : w.items[i].prim

FieldText(k, v) == Token(StrV(k)) \o <<COLON>> \o Token(v)

\* C1: when an array scope that only had values added with add is released,
\* the text it emitted is '[', the tokens of the values in call order
\* separated by ',', and ']': N-1 commas for N >= 1 values, none for N = 0.
C1_ArrayText ==
    [][ ReleasesTop("array") /\ OnlyPrimitives(Top) =>
          LET n == Len(Top.items)
              text == Since(buf', Top.start)
          IN  /\ text = <<LBRACKET>>
                        \o JoinComma([i \in 1..n |-> Token(Top.items[i].val)])
                        \o <<RBRACKET>>
              /\ Count(COMMA, text) = IF n = 0 THEN 0 ELSE n - 1 ]_vars

\* [10,false] was written and released.
C1_Witness ==
    /\ stack = <<>>
    /\ buf = <<LBRACKET>> \o Token(IntV(10)) \o <<COMMA>> \o Token(BoolV(FALSE))
             \o <<RBRACKET>>

\* C2: when an object scope that only had fields added with field is
\* released, the text it emitted is '{', each field as key ':' value token,
\* ',' strictly between consecutive fields, and '}': one colon per field.
C2_ObjectText ==
    [][ ReleasesTop("object") /\ OnlyPrimitives(Top) =>
          LET n == Len(Top.items)
              text == Since(buf', Top.start)
          IN  /\ text = <<LBRACE>>
                        \o JoinComma([i \in 1..n |->
                                         FieldText(Top.items[i].key, Top.items[i].val)])
                        \o <<RBRACE>>
              /\ Count(COLON, text) = n
              /\ Count(COMMA, text) = IF n = 0 THEN 0 ELSE n - 1 ]_vars

\* {"a":10,"b":false} was written and released.
C2_Witness ==
    /\ stack = <<>>
    /\ buf = <<LBRACE>> \o FieldText(<<97>>, IntV(10)) \o <<COMMA>>
             \o FieldText(<<98>>, BoolV(FALSE)) \o <<RBRACE>>

\* C3: a step appends a ']' (a '}') exactly when it releases an array (an
\* object) scope, then exactly one and nothing else, also while a panic
\* unwinds; so once no scope is live every scope opened has been closed once.
C3_ClosedOnce ==
    /\ [](stack = <<>> =>
            /\ Count(LBRACKET, buf) = Count(RBRACKET, buf)
            /\ Count(LBRACE, buf) = Count(RBRACE, buf))
    /\ [][ /\ Count(RBRACKET, buf') - Count(RBRACKET, buf)
                = IF ReleasesTop("array") THEN 1 ELSE 0
           /\ Count(RBRACE, buf') - Count(RBRACE, buf)
                = IF ReleasesTop("object") THEN 1 ELSE 0
           /\ ReleasesTop("array") => buf' = buf \o <<RBRACKET>>
           /\ ReleasesTop("object") => buf' = buf \o <<RBRACE>> ]_vars

\* A panic in a value's encoder has unwound an object inside an array.
C3_Witness ==
    /\ unwind = "encoder" /\ stack = <<>>
    /\ Count(RBRACKET, buf) = 1 /\ Count(RBRACE, buf) = 1

\* C4: a single-value scope that is released without a call appends exactly
\* "null"; one on which write(v) is called appends exactly the token of v.
C4_SingleValue ==
    [][ (stack # <<>> /\ Top.kind = "single" /\ ~Top.taken
         /\ Len(stack') = Len(stack) - 1) =>
          IF nops' = nops
          THEN buf' = buf \o NullText
          ELSE LET slot == stack'[Len(stack')].items
               IN  buf' = buf \o Token(slot[Len(slot)].val) ]_vars

\* An abandoned slot of an array holds the default: [null
C4_Witness ==
    /\ Len(stack) = 1 /\ Top.kind = "array"
    /\ buf = <<LBRACKET>> \o NullText

\* C5: once write, array or object has been invoked on a single-value scope
\* (its guard taken), that instance appends nothing more when it goes away,
\* on any exit path of the call.
C5_NoDefaultAfterInvoke ==
    [][ (stack # <<>> /\ Top.kind = "single" /\ Top.taken
         /\ Len(stack') = Len(stack) - 1) => buf' = buf ]_vars

\* The scopes that the text of the buffer leaves open, outermost first;
\* <<"mismatch">> when a closing delimiter does not close the innermost one.
RECURSIVE OpenScopes(_, _, _, _)
OpenScopes(s, i, open, str) ==
    IF i > Len(s) THEN open
    ELSE LET c == s[i]
         IN  IF str
             THEN IF c = BACKSLASH THEN OpenScopes(s, i + 2, open, TRUE)
                  ELSE OpenScopes(s, i + 1, open, c # QUOTE)
             ELSE IF c = QUOTE THEN OpenScopes(s, i + 1, open, TRUE)
             ELSE IF c = LBRACKET THEN OpenScopes(s, i + 1, Append(open, "array"), FALSE)
             ELSE IF c = LBRACE THEN OpenScopes(s, i + 1, Append(open, "object"), FALSE)
             ELSE IF c = RBRACKET \/ c = RBRACE
                  THEN IF /\ open # <<>>
                          /\ open[Len(open)] = (IF c = RBRACKET THEN "array" ELSE "object")
                       THEN OpenScopes(s, i + 1, SubSeq(open, 1, Len(open) - 1), FALSE)
                       ELSE <<"mismatch">>
             ELSE OpenScopes(s, i + 1, open, FALSE)

\* [{"a":1,"b":2},3]
NestedText ==
    <<91, 123, 34, 97, 34, 58, 49, 44, 34, 98, 34, 58, 50, 125, 44, 51, 93>>

\* C6: closing delimiters are written in reverse order of opening: in every
\* state the scopes the buffer leaves open are the live scopes, in order;
\* and array, add_object, field(k1,v1), field(k2,v2), end, add(v3), end
\* yields [{k1:v1,k2:v2},v3], for a=1, b=2, 3 exactly [{"a":1,"b":2},3].
C6_StackDiscipline ==
    /\ OpenScopes(buf, 1, <<>>, FALSE) = [i \in 1..Len(stack) |-> stack[i].kind]
    /\ Finished =>
         /\ \A k1 \in Keys, k2 \in Keys, v1 \in ScriptInts, v2 \in ScriptInts,
               v3 \in ScriptInts :
               script.prog = NestedProgram(k1, v1, k2, v2, v3) =>
                 buf = <<LBRACKET, LBRACE>> \o FieldText(k1, IntV(v1)) \o <<COMMA>>
                       \o FieldText(k2, IntV(v2)) \o <<RBRACE, COMMA>>
                       \o Token(IntV(v3)) \o <<RBRACKET>>
         /\ script.prog = NestedProgram(<<97>>, 1, <<98>>, 2, 3) => buf = NestedText

C6_Witness == Finished /\ buf = NestedText

\* What releasing every live scope, innermost first, appends.
RECURSIVE Closers(_)
Closers(st) ==
    IF st = <<>> THEN <<>>
    ELSE LET w == st[Len(st)]
         IN  (CASE w.kind = "single" -> NullText
                [] w.kind = "array" -> <<RBRACKET>>
                [] w.kind = "object" -> <<RBRACE>>)
             \o Closers(SubSeq(st, 1, Len(st) - 1))

\* C7: after one top-level entry point, whenever the caller stops between
\* two calls (also by a panic of its own code), the buffer followed by the
\* pending default null and the closing delimiters of the live scopes,
\* innermost first, is one valid JSON value.
C7_CancelSafe ==
    (topCalls = 1 /\ unwind # "encoder") => ValidJson(buf \o Closers(stack))

\* The caller panicked inside complex_field's closure: {"a":null}
C7_Witness ==
    /\ unwind = "caller" /\ stack = <<>> /\ topCalls = 1
    /\ buf = <<LBRACE>> \o Token(StrV(<<97>>)) \o <<COLON>> \o NullText \o <<RBRACE>>

\* C8 as stated: whatever calls are made on one Serializer, the buffer
\* receives a single top-level JSON value.
C8_SingleTopLevelValue ==
    (topCalls >= 1 /\ stack = <<>> /\ unwind # "encoder") => ValidJson(buf)

\* C8 as amended: when exactly one of write, array, object was called on the
\* Serializer and its scope is released, the buffer is one JSON value, with
\* no whitespace and no trailing separator.
C8_OneCallOneValue ==
    (topCalls = 1 /\ stack = <<>> /\ unwind # "encoder") =>
        /\ ValidJson(buf)
        /\ \A i \in 1..Len(buf) : buf[i] \notin {32, 9, 10, 13}
        /\ buf[Len(buf)] # COMMA

\* One top-level array was written and the Serializer ended: [10]
C8_Witness ==
    /\ topCalls = 1 /\ ser = "ended"
    /\ buf = <<LBRACKET>> \o Token(IntV(10)) \o <<RBRACKET>>

\* C9: every top-level call, the first as any later one, raises nothing and
\* appends its value directly after what the buffer holds: no delimiter, no
\* separator.
C9_TopLevelUnchecked ==
    [][ (stack = <<>> /\ topCalls' = topCalls + 1) =>
          /\ unwind' = "none"
          /\ \/ \E v \in Values : buf' = buf \o Token(v) /\ stack' = <<>>
             \/ buf' = buf \o <<LBRACKET>> /\ Len(stack') = 1
             \/ buf' = buf \o <<LBRACE>> /\ Len(stack') = 1 ]_vars

\* Two top-level values, one after the other: 10[]
C9_Witness ==
    /\ topCalls = 2 /\ stack = <<>>
    /\ buf = Token(IntV(10)) \o <<LBRACKET, RBRACKET>>

\* {"name":"cat","fed":false,"scores":[1,2,3]}
CatText ==
    <<123, 34, 110, 97, 109, 101, 34, 58, 34, 99, 97, 116, 34, 44,
      34, 102, 101, 100, 34, 58, 102, 97, 108, 115, 101, 44,
      34, 115, 99, 111, 114, 101, 115, 34, 58, 91, 49, 44, 50, 44, 51, 93, 125>>

\* C10: object, field(name), field(fed), array_field(scores), add of each
\* score, end, [field(fed) again,] end yields
\* {"name":<name>,"fed":<fed>,"scores":[<scores>][,"fed":<fed>]}: the array
\* opened as a field value follows ',', its key and ':', and the field after
\* it follows ','; for "cat", false, [1,2,3] exactly CatText.
C10_RecordText ==
    Finished =>
      /\ \A name \in ScriptNames, fed \in BOOLEAN, again \in BOOLEAN,
            scores \in UNION { [1..n -> ScriptInts] : n \in 0..MaxScores } :
            script.prog = RecordProgram(name, fed, scores, again) =>
              buf = <<LBRACE>> \o FieldText(NameKey, StrV(name)) \o <<COMMA>>
                    \o FieldText(FedKey, BoolV(fed)) \o <<COMMA>>
                    \o Token(StrV(ScoresKey)) \o <<COLON, LBRACKET>>
                    \o JoinComma([i \in 1..Len(scores) |-> Token(IntV(scores[i]))])
                    \o <<RBRACKET>>
                    \o (IF again THEN <<COMMA>> \o FieldText(FedKey, BoolV(fed))
                        ELSE <<>>)
                    \o <<RBRACE>>
      /\ script.prog = RecordProgram(<<99, 97, 116>>, FALSE, <<1, 2, 3>>, FALSE) =>
           buf = CatText

C10_Witness == Finished /\ buf = CatText

\* A byte that the text encoder must not copy: '"', '\' and the control
\* characters below 0x20.
Special(c) == c = QUOTE \/ c = BACKSLASH \/ c < 32

\* The caller's program was ser.write(text) and it has run.
WroteText == Finished /\ Len(script.prog) = 1 /\ script.prog[1].v.t = "str"

\* C11: writing a text appends '"', the escaped body and '"': a JSON parser
\* reads the emitted literal back as the original text; inside the
\* quotes no control character and no quote or backslash stands unescaped;
\* a text without such bytes is copied byte for byte.
C11_TextRoundTrip ==
    WroteText =>
        LET s == script.prog[1].v.s
            n == Len(buf)
        IN  /\ n >= 2 /\ buf[1] = QUOTE /\ buf[n] = QUOTE
            /\ ParsesTo(buf, s)
            /\ Len(buf) = 2 + Len(s)
                           + Cardinality({i \in 1..Len(s) : Special(s[i])})
                           + 4 * Cardinality({i \in 1..Len(s) :
                                    s[i] < 32 /\ s[i] \notin {8, 9, 10, 12, 13}})
            /\ (\A i \in 1..Len(s) : ~Special(s[i])) => buf = <<QUOTE>> \o s \o <<QUOTE>>

\* NUL, '"' and the two-byte character were written as "\u0000\"" and the
\* two bytes.
C11_Witness ==
    /\ WroteText
    /\ script.prog[1].v.s = <<0, QUOTE, 195, 169>>
    /\ buf = <<QUOTE, BACKSLASH, 117, 48, 48, 48, 48, BACKSLASH, QUOTE, 195, 169, QUOTE>>

\* The caller's program was ser.write(v) for a primitive v and it has run.
WrotePrimitive == Finished /\ Len(script.prog) = 1

\* C12 as stated: every integer, float, boolean, unit/Null and text is
\* written without a panic and leaves valid JSON.
C12_AllInputsValid == WrotePrimitive => unwind = "none" /\ ValidJson(buf)

\* C12, amended: every integer, finite float, boolean, unit/Null and text
\* is written without a panic and leaves valid JSON; a NaN or an infinity is
\* written without a panic too, as NaN, inf or -inf, which is not JSON.
C12_FiniteInputsValid ==
    WrotePrimitive =>
        LET v == script.prog[1].v
        IN  /\ unwind = "none"
            /\ buf = Token(v)
            /\ IF v \in NonFinite
               THEN /\ buf \in {<<78, 97, 78>>, <<105, 110, 102>>, <<45, 105, 110, 102>>}
                    /\ ~ValidJson(buf)
               ELSE ValidJson(buf)

\* -1.5 was written.
C12_Witness ==
    /\ WrotePrimitive
    /\ script.prog[1].v = FloatV(TRUE, 15)
    /\ buf = <<45, 49, 46, 53>>

\* The caller's program makes an unescaped-text marker and writes it, as a
\* value or as the key of a field.
MakesMarker == script.prog[1].op = "create"

\* What a program that makes a marker leaves in the buffer when the marker
\* is written as the quoted text lit.
MarkerOutput(lit) ==
    IF Len(script.prog) = 2 THEN lit
    ELSE <<LBRACE>> \o lit \o <<COLON>> \o Token(script.prog[3].v) \o <<RBRACE>>

\* C13: creating the marker over text with a byte that needs escaping
\* panics in a debug build, before anything is written; in a release build
\* it succeeds, and writing the marker as a value or as a key appends '"',
\* the text as it is and '"'; for text without such a byte this is what the
\* escaping text encoder writes.
C13_UnescapedMarker ==
    MakesMarker =>
        LET s == script.prog[1].k
            bad == \E i \in 1..Len(s) : Special(s[i])
        IN  /\ build = "debug" /\ bad /\ script.pc > 1 =>
                  script.pc = 2 /\ unwind = "caller" /\ buf = <<>>
            /\ build = "release" \/ ~bad =>
                  /\ unwind = "none"
                  /\ Finished => buf = MarkerOutput(<<QUOTE>> \o s \o <<QUOTE>>)
            /\ ~bad /\ Finished => buf = MarkerOutput(Token(StrV(s)))

\* A release build wrote the marker over a lone '"' as three quotes.
C13_Witness ==
    /\ MakesMarker /\ Finished
    /\ build = "release"
    /\ script.prog[1].k = <<QUOTE>>
    /\ buf = <<QUOTE, QUOTE, QUOTE>>

\* The writer's own state (the history fields apart) is the same in v as in w.
SameWriter(w, v) ==
    /\ w.kind = v.kind /\ w.start = v.start
    /\ w.first_element = v.first_element /\ w.taken = v.taken

\* C14: only the innermost live scope holds the buffer: in every step, every
\* scope below the innermost one stays live and keeps its state, at most the
\* innermost scope is released, and while any scope is live no call is made
\* on the Serializer; so whatever a step appends, it appends through the
\* innermost scope, and a parent acts again only once its child is gone.
C14_InnermostOnly ==
    [][ /\ Len(stack') >= Len(stack) - 1
        /\ \A i \in 1..(Len(stack) - 1) : SameWriter(stack[i], stack'[i])
        /\ stack # <<>> => topCalls' = topCalls /\ ser' = ser
        /\ Len(stack') > Len(stack) =>
              /\ Len(stack') = Len(stack) + 1
              /\ stack'[Len(stack')].start >= Len(buf) ]_vars

\* An object inside an array is live and has written a field: [{"a":10
C14_Witness ==
    /\ Len(stack) = 2 /\ stack[1].kind = "array" /\ stack[2].kind = "object"
    /\ buf = <<LBRACKET, LBRACE>> \o FieldText(<<97>>, IntV(10))

\* t is a complete JSON value followed by the default 'null'.
ValueThenNull(t) ==
    LET n == Len(t)
    IN  /\ n > Len(NullText)
        /\ SubSeq(t, n - Len(NullText) + 1, n) = NullText
        /\ ValidJson(SubSeq(t, 1, n - Len(NullText)))

\* C15: add_complex and complex_field append the separator if one is needed
\* (and, in an object, the key and ':') before the continuation runs, and
\* mark the slot as an element of the enclosing scope; when the single-value
\* scope is gone and nothing unwinds, the slot holds exactly one JSON value;
\* and a single-value scope never leaves two values in its slot.
C15_OneValuePerSlot ==
    [][ /\ Len(stack') = Len(stack) + 1 /\ stack'[Len(stack')].kind = "single" =>
              LET sep == IF Top.first_element THEN <<>> ELSE <<COMMA>>
                  key == IF Top.kind = "object"
                         THEN Token(StrV(stack'[Len(stack')].key)) \o <<COLON>>
                         ELSE <<>>
              IN  /\ buf' = buf \o sep \o key
                  /\ ~stack'[Len(stack)].first_element
        /\ ReleasesTop("single") =>
              LET slot == Since(buf', Top.start)
              IN  /\ unwind' = "none" => ValidJson(slot)
                  /\ ~ValueThenNull(slot) ]_vars

\* In the stack st, the flag of an array or object scope is true exactly
\* when no element or field operation has been made on it: it has completed
\* none and none is in progress (it is the innermost scope).
FlagMeansUnused(st) ==
    \A i \in 1..Len(st) :
        st[i].kind \in {"array", "object"} =>
            (st[i].first_element <=> st[i].items = <<>> /\ i = Len(st))

\* C16: the separator flag of an array or object scope is true from its
\* opening until its first element or field operation and false from then
\* on, never true again; an element or field operation (every call on the
\* scope but an extend of no items) appends ',' first exactly when the flag
\* was false as it started.
C16_SeparatorFlag ==
    [][ /\ FlagMeansUnused(stack) /\ FlagMeansUnused(stack')
        /\ \A i \in 1..Len(stack) :
              /\ i <= Len(stack')
              /\ stack'[i].kind = stack[i].kind /\ stack'[i].start = stack[i].start
              /\ ~stack[i].first_element
              => ~stack'[i].first_element
        /\ /\ stack # <<>> /\ Top.kind \in {"array", "object"}
           /\ nops' = nops + 1 /\ stack' # stack
           => /\ ~stack'[Len(stack)].first_element
              /\ At(buf', Len(buf) + 1) = COMMA <=> ~Top.first_element ]_vars

\* The second field of an object was written after a ',': {"a":10,"b":false
C16_Witness ==
    /\ Len(stack) = 1 /\ Top.kind = "object" /\ ~Top.first_element
    /\ buf = <<LBRACE>> \o FieldText(<<97>>, IntV(10)) \o <<COMMA>>
             \o FieldText(<<98>>, BoolV(FALSE))

\* The last element or field the scope completed was a nested scope.
AfterNested(w) == w.items # <<>> /\ ~w.items[Len(w.items)].prim

\* C17: a nested scope starts with its flag true whatever the flag of its
\* parent; no step changes the flag of a scope below the innermost one, nor
\* does the release of a scope change its parent's flag; and the element or
\* field a parent writes next after a nested scope was released follows
\* the nested scope's closing delimiter after exactly one ','.
C17_IndependentFlags ==
    [][ /\ Len(stack') = Len(stack) + 1 => stack'[Len(stack')].first_element
        /\ \A i \in 1..(Len(stack) - 1) :
              stack'[i].first_element = stack[i].first_element
        /\ stack # <<>> /\ AfterNested(Top) /\ Len(stack') >= Len(stack) =>
              /\ buf[Len(buf)] \in {RBRACKET, RBRACE}
              /\ buf'[Len(buf) + 1] = COMMA
              /\ buf'[Len(buf) + 2] # COMMA ]_vars

\* After the nested object with two fields, the array's next element came
\* after one ',': [{"a":1,"b":2},3
C17_Witness ==
    /\ Len(stack) = 1 /\ Top.kind = "array"
    /\ buf = <<LBRACKET, LBRACE>> \o FieldText(<<97>>, IntV(1)) \o <<COMMA>>
             \o FieldText(<<98>>, IntV(2)) \o <<RBRACE, COMMA>> \o Token(IntV(3))

\* The values the program p hands to add and extend, in call order.
RECURSIVE Elements(_)
Elements(p) ==
    IF p = <<>> THEN <<>>
    ELSE (CASE Head(p).op = "add" -> <<Head(p).v>>
            [] Head(p).op = "extend" -> ScriptVals(Head(p).k)
            [] OTHER -> <<>>) \o Elements(Tail(p))

\* The writer and buffer after add(v) for each v of vals in order.
RECURSIVE AddEach(_, _, _)
AddEach(w, b, vals) ==
    IF vals = <<>> THEN [w |-> w, buf |-> b]
    ELSE LET r == ArrayWriter_add_value(w, b, Head(vals))
         IN  AddEach(r.w, r.buf, Tail(vals))

\* The program is an array filled by add and extend calls only.
FlatArrayProgram == \A i \in 2..(Len(script.prog) - 1) : script.prog[i].op \in {"add", "extend"}

\* C18: extend(vals) leaves the buffer and the scope's flag as add(v) for
\* each v of vals in order leaves them; extend of no items changes neither;
\* so a released array filled by add and extend calls reads '[', the
\* tokens of all the values in call order joined by ',', ']'.
C18_ExtendIsAdds ==
    [][ /\ ~Finished /\ Call.op = "extend" /\ script'.pc = script.pc + 1 =>
              LET vals == ScriptVals(Call.k)
                  r == AddEach(Top, buf, vals)
              IN  /\ buf' = r.buf
                  /\ stack'[Len(stack)].first_element = r.w.first_element
                  /\ Len(stack') = Len(stack)
                  /\ vals = <<>> => buf' = buf /\ stack' = stack
                  /\ buf' = buf \o (IF Top.first_element \/ vals = <<>> THEN <<>> ELSE <<COMMA>>)
                                \o JoinComma([i \in 1..Len(vals) |-> Token(vals[i])])
        /\ FlatArrayProgram /\ ~Finished /\ script'.pc > Len(script.prog) =>
              LET vals == Elements(script.prog)
              IN  buf' = <<LBRACKET>> \o JoinComma([i \in 1..Len(vals) |-> Token(vals[i])])
                         \o <<RBRACKET>> ]_vars

\* add(1), extend([2,3]) and add(1) were called on an array: [1,2,3,1]
C18_Witness ==
    /\ Finished
    /\ script.prog = ExtendProgram(<<1>>, <<2, 3>>, <<1>>)
    /\ buf = <<LBRACKET, 49, COMMA, 50, COMMA, 51, COMMA, 49, RBRACKET>>

\* C19: an object emits its fields in the order of the field calls and does
\* not look at the keys: while a top-level object that was only given
\* fields by field is live, it has emitted one field per call, and the
\* buffer reads '{' and the fields key ':' value in call order joined by
\* ',', a key given twice appearing twice.
C19_FieldOrder ==
    /\ Len(stack) = 1 /\ Top.kind = "object" /\ topCalls = 1
    /\ unwind = "none" /\ OnlyPrimitives(Top)
    => LET n == Len(Top.items)
       IN  /\ n = nops - 1
           /\ buf = <<LBRACE>>
                    \o JoinComma([i \in 1..n |->
                                     FieldText(Top.items[i].key, Top.items[i].val)])
           /\ Count(COLON, buf) = n

\* The key "a" was given twice and stands twice: {"a":10,"a":false
C19_Witness ==
    /\ Len(stack) = 1 /\ Top.kind = "object" /\ unwind = "none"
    /\ buf = <<LBRACE>> \o FieldText(<<97>>, IntV(10)) \o <<COMMA>>
             \o FieldText(<<97>>, BoolV(FALSE))

IsPrefix(a, b) == Len(a) <= Len(b) /\ SubSeq(b, 1, Len(a)) = a

\* C20: the buffer only grows at its end: in every step (every call, every
\* release, every panic) the buffer before the step is a prefix of the
\* buffer after it, whatever was in the buffer when the Serializer was made.
C20_AppendOnly == [][IsPrefix(buf, buf')]_vars

\* [10] was written and released after the "x" that was in the buffer.
C20_Witness ==
    /\ stack = <<>>
    /\ buf = <<120, LBRACKET>> \o Token(IntV(10)) \o <<RBRACKET>>

\* Serializer i of the two, with its buffer, scopes and program.
Tree(i) ==
    IF focus = i
    THEN [buf |-> buf, stack |-> stack, ser |-> ser, unwind |-> unwind,
          topCalls |-> topCalls, script |-> script]
    ELSE other

\* What a program's calls write when nothing else runs, said call by call:
\* the text so far, and the kind and separator flag of each open scope.
RefStep(r, op) ==
    LET n == Len(r.kinds)
        sep == IF n = 0 \/ r.firsts[n] THEN <<>> ELSE <<COMMA>>
        used == IF n = 0 THEN r.firsts ELSE [r.firsts EXCEPT ![n] = FALSE]
        opens(text, kind) ==
            [buf |-> r.buf \o text, kinds |-> Append(r.kinds, kind),
             firsts |-> Append(used, TRUE)]
        element(text) == [buf |-> r.buf \o sep \o text, kinds |-> r.kinds, firsts |-> used]
        vals == ScriptVals(op.k)
    IN  CASE op.op = "array" -> opens(<<LBRACKET>>, "array")
          [] op.op = "object" -> opens(<<LBRACE>>, "object")
          [] op.op = "add_array" -> opens(sep \o <<LBRACKET>>, "array")
          [] op.op = "add_object" -> opens(sep \o <<LBRACE>>, "object")
          [] op.op = "array_field" ->
               opens(sep \o Token(StrV(op.k)) \o <<COLON, LBRACKET>>, "array")
          [] op.op = "add" -> element(Token(op.v))
          [] op.op = "field" -> element(FieldText(op.k, op.v))
          [] op.op = "extend" ->
               IF vals = <<>> THEN r
               ELSE element(JoinComma([i \in 1..Len(vals) |-> Token(vals[i])]))
          [] op.op = "end" ->
               [buf |-> r.buf \o (IF r.kinds[n] = "array" THEN <<RBRACKET>> ELSE <<RBRACE>>),
                kinds |-> SubSeq(r.kinds, 1, n - 1), firsts |-> SubSeq(r.firsts, 1, n - 1)]

RECURSIVE RefRun(_, _)
RefRun(p, n) ==
    IF n = 0 THEN [buf |-> <<>>, kinds |-> <<>>, firsts |-> <<>>]
    ELSE RefStep(RefRun(p, n - 1), p[n])

\* The tree has written, and has the flags, that its calls so far give when
\* it runs alone.
AsAlone(t) ==
    LET r == RefRun(t.script.prog, t.script.pc - 1)
    IN  /\ t.buf = r.buf
        /\ [i \in 1..Len(t.stack) |-> t.stack[i].first_element] = r.firsts
        /\ [i \in 1..Len(t.stack) |-> t.stack[i].kind] = r.kinds

\* C21: two serializers over different buffers are isolated: a step changes
\* at most one of the two trees, namely the one the call is made on, and
\* leaves the other's buffer, scopes and flags as they were; turning from
\* one serializer to the other changes neither; and under every
\* interleaving each tree's buffer and flags are what its own calls so far
\* give when it runs alone.
C21_Isolated ==
    [][ /\ \A i \in {1, 2} :
              Tree(i)' # Tree(i) =>
                  /\ focus = i /\ focus' = i
                  /\ Tree(3 - i)' = Tree(3 - i)
        /\ AsAlone(Tree(1)') /\ AsAlone(Tree(2)') ]_vars

\* Both trees are part-way, each with a live scope: one has written [1,2,3
\* and the other {"name":"a"
C21_Witness ==
    /\ Tree(1).buf = <<LBRACKET, 49, COMMA, 50, COMMA, 51>>
    /\ Len(Tree(1).stack) = 1
    /\ Tree(2).buf = <<LBRACE>> \o FieldText(NameKey, StrV(<<97>>))
    /\ Len(Tree(2).stack) = 1

\* How many scopes of the kind are live in the stack st.
LiveScopes(st, kind) == Cardinality({i \in 1..Len(st) : st[i].kind = kind})

\* In the buffer b, no prefix has more closing than opening delimiters of
\* either kind, and the delimiters not yet closed are as many as the live
\* scopes of their kind in st.  (No value the caller writes here has a
\* delimiter in it, so every delimiter in b was written by a scope.)
Balanced(b, st) ==
    /\ \A n \in 0..Len(b) :
          /\ Count(RBRACKET, SubSeq(b, 1, n)) <= Count(LBRACKET, SubSeq(b, 1, n))
          /\ Count(RBRACE, SubSeq(b, 1, n)) <= Count(LBRACE, SubSeq(b, 1, n))
    /\ Count(LBRACKET, b) - Count(RBRACKET, b) = LiveScopes(st, "array")
    /\ Count(LBRACE, b) - Count(RBRACE, b) = LiveScopes(st, "object")

\* C22: the delimiters balance in every state: closing delimiters never
\* outnumber opening ones, '[' minus ']' is the number of live array scopes
\* and '{' minus '}' the number of live object scopes; and a step that
\* writes a closing delimiter writes just that byte and releases the
\* innermost live scope, which is of the delimiter's kind.
C22_DelimiterBalance ==
    [][ /\ Balanced(buf, stack) /\ Balanced(buf', stack')
        /\ buf' # buf /\ buf'[Len(buf')] \in {RBRACKET, RBRACE} =>
              /\ buf' = Append(buf, buf'[Len(buf')])
              /\ ReleasesTop(IF buf'[Len(buf')] = RBRACKET THEN "array" ELSE "object") ]_vars

\* An object inside a live array was opened and closed: [{}
C22_Witness ==
    /\ Len(stack) = 1 /\ Top.kind = "array"
    /\ buf = <<LBRACKET, LBRACE, RBRACE>>
====
